---------------------------- MODULE Spec2Model ----------------------------
(***************************************************************************)
(* Model of the Binance Futures trading bot: the input validators          *)
(* (bot/validators.py), the order service (bot/orders.py), the transport   *)
(* wrapper (bot/client.py) and the command line entry point (cli.py).      *)
(*                                                                         *)
(* Python values are records tagged with their type in field t.  A str is  *)
(* a sequence of characters (one-character strings; "U+00DF" stands for    *)
(* the single character LATIN SMALL LETTER SHARP S).  A float is a sign, a *)
(* decimal mantissa m and a count e of fractional digits (value m / 10^e), *)
(* or one of the special values nan, inf, -inf.                            *)
(***************************************************************************)
EXTENDS Integers, Sequences, FiniteSets, TLC

VARIABLES
    pc,            \* position of the running invocation
    args,          \* the five raw inputs (symbol, side, order_type, quantity, price)
    env,           \* environment: BINANCE_API_KEY / BINANCE_API_SECRET
    exchange,      \* TRUE once binance.Client(...) has been constructed
    requests,      \* requests sent to the exchange, in order
    clientCalls,   \* calls of BinanceClient.place_market_order / place_limit_order
    validated,     \* what validate_all_inputs returned to place_order
    order_details, \* what place_order returned
    raised,        \* the exception in flight or handled last
    banner,        \* error banner echoed by the CLI
    exitCode,      \* process exit status
    log,           \* warnings logged by the validators
    call,          \* validator harness: the pending library call
    ret            \* validator harness: its outcome

vars == <<pc, args, env, exchange, requests, clientCalls, validated,
          order_details, raised, banner, exitCode, log, call, ret>>

-----------------------------------------------------------------------------
(* Python values *)

PyNone == [t |-> "NoneType"]
PyStr(s) == [t |-> "str", s |-> s]
PyBool(b) == [t |-> "bool", b |-> b]
PyList == [t |-> "list"]
PyFloat(f) == [t |-> "float", f |-> f]

Fin(neg, m, e) == [c |-> "fin", neg |-> neg, m |-> m, e |-> e]
NaN == [c |-> "nan", neg |-> FALSE, m |-> 0, e |-> 0]
Inf(neg) == [c |-> "inf", neg |-> neg, m |-> 0, e |-> 0]

\* f <= 0 and f > 0 on floats; every comparison with nan is False
FloatLeZero(f) ==
    CASE f.c = "nan" -> FALSE
      [] f.c = "inf" -> f.neg
      [] OTHER -> f.neg \/ f.m = 0

FloatGtZero(f) ==
    CASE f.c = "nan" -> FALSE
      [] f.c = "inf" -> ~f.neg
      [] OTHER -> ~f.neg /\ f.m > 0

\* bool(x) for the values of the model
Truthy(x) ==
    CASE x.t = "NoneType" -> FALSE
      [] x.t = "str" -> x.s # <<>>
      [] x.t = "bool" -> x.b
      [] x.t = "list" -> FALSE
      [] x.t = "float" -> x.f.c # "fin" \/ x.f.m # 0

-----------------------------------------------------------------------------
(* str methods *)

LowerCase == <<"a","b","c","d","e","f","g","h","i","j","k","l","m",
               "n","o","p","q","r","s","t","u","v","w","x","y","z">>
UpperCase == <<"A","B","C","D","E","F","G","H","I","J","K","L","M",
               "N","O","P","Q","R","S","T","U","V","W","X","Y","Z">>
Digits == <<"0","1","2","3","4","5","6","7","8","9">>
Whitespace == {" ", "\t", "\n"}

InSeq(c, seq) == \E i \in 1..Len(seq) : seq[i] = c
IndexOf(c, seq) == CHOOSE i \in 1..Len(seq) : seq[i] = c

\* upper() of one character; the sharp s upper-cases to two characters
UpperChar(c) ==
    IF InSeq(c, LowerCase) THEN <<UpperCase[IndexOf(c, LowerCase)]>>
    ELSE IF c = "U+00DF" THEN <<"S", "S">>
    ELSE <<c>>

LowerChar(c) ==
    IF InSeq(c, UpperCase) THEN LowerCase[IndexOf(c, UpperCase)] ELSE c

RECURSIVE str_upper(_)
str_upper(s) ==
    IF s = <<>> THEN <<>> ELSE UpperChar(Head(s)) \o str_upper(Tail(s))

str_lower(s) == [i \in 1..Len(s) |-> LowerChar(s[i])]

RECURSIVE str_lstrip(_)
str_lstrip(s) ==
    IF s # <<>> /\ Head(s) \in Whitespace THEN str_lstrip(Tail(s)) ELSE s

RECURSIVE str_rstrip(_)
str_rstrip(s) ==
    IF s # <<>> /\ s[Len(s)] \in Whitespace
    THEN str_rstrip(SubSeq(s, 1, Len(s) - 1)) ELSE s

str_strip(s) == str_rstrip(str_lstrip(s))

\* [A-Z0-9]
IsUpperAlnum(c) == InSeq(c, UpperCase) \/ InSeq(c, Digits)

AllUpperAlnum(s) == \A i \in 1..Len(s) : IsUpperAlnum(s[i])

\* the pattern without its closing anchor: only a prefix has to match
SymbolPatternUnanchored(s) ==
    s # <<>> /\ IsUpperAlnum(s[1])

\* re.match(r'^[A-Z0-9]+$', s): $ also matches before one trailing newline
SymbolPatternMatches(s) ==
    \/ s # <<>> /\ AllUpperAlnum(s)
    \/ /\ Len(s) >= 2
       /\ s[Len(s)] = "\n"
       /\ AllUpperAlnum(SubSeq(s, 1, Len(s) - 1))

-----------------------------------------------------------------------------
(* float(x) *)

AllDigits(s) == \A i \in 1..Len(s) : InSeq(s[i], Digits)

RECURSIVE DigitsValue(_)
DigitsValue(s) ==
    IF s = <<>> THEN 0
    ELSE 10 * DigitsValue(SubSeq(s, 1, Len(s) - 1))
         + (IndexOf(s[Len(s)], Digits) - 1)

\* the same number with no trailing fractional zero
RECURSIVE Normalize(_)
Normalize(f) ==
    IF f.e > 0 /\ f.m % 10 = 0 THEN Normalize(Fin(f.neg, f.m \div 10, f.e - 1))
    ELSE f

DotAt(s) == CHOOSE i \in 1..Len(s) : s[i] = "."

\* an unsigned decimal literal: digits, digits.digits, digits. or .digits
IsDecimal(s) ==
    IF InSeq(".", s)
    THEN LET ip == SubSeq(s, 1, DotAt(s) - 1)
             fp == SubSeq(s, DotAt(s) + 1, Len(s))
         IN  AllDigits(ip) /\ AllDigits(fp) /\ Len(ip) + Len(fp) >= 1
    ELSE s # <<>> /\ AllDigits(s)

DecimalValue(neg, s) ==
    IF InSeq(".", s)
    THEN LET ip == SubSeq(s, 1, DotAt(s) - 1)
             fp == SubSeq(s, DotAt(s) + 1, Len(s))
         IN  Normalize(Fin(neg, DigitsValue(ip \o fp), Len(fp)))
    ELSE Fin(neg, DigitsValue(s), 0)

SpecialNames == { <<"n","a","n">>, <<"i","n","f">>,
                  <<"i","n","f","i","n","i","t","y">> }

\* float(str): surrounding whitespace stripped, optional sign, then a
\* decimal literal or nan / inf / infinity in any case
ParseFloat(s) ==
    LET body == str_strip(s)
        signed == body # <<>> /\ Head(body) \in {"+", "-"}
        neg == signed /\ Head(body) = "-"
        rest == IF signed THEN Tail(body) ELSE body
    IN  IF str_lower(rest) \in SpecialNames
        THEN [ok |-> TRUE,
              f |-> IF str_lower(rest) = <<"n","a","n">> THEN NaN ELSE Inf(neg)]
        ELSE IF IsDecimal(rest)
        THEN [ok |-> TRUE, f |-> DecimalValue(neg, rest)]
        ELSE [ok |-> FALSE, f |-> NaN]

\* float(x); ok = FALSE stands for TypeError / ValueError
float(x) ==
    CASE x.t = "float" -> [ok |-> TRUE, f |-> x.f]
      [] x.t = "bool" -> [ok |-> TRUE, f |-> Fin(FALSE, IF x.b THEN 1 ELSE 0, 0)]
      [] x.t = "str" -> ParseFloat(x.s)
      [] OTHER -> [ok |-> FALSE, f |-> NaN]

-----------------------------------------------------------------------------
(* bot/validators.py *)

MinSymbolLen == 2

\* a validator's outcome: the returned value, or the ValueError raised;
\* log holds the logger.warning records it wrote
Return(v, warnings) ==
    [ok |-> TRUE, val |-> v, field |-> "", err |-> "", log |-> warnings]
RaiseValueError(field, msg, warnings) ==
    [ok |-> FALSE, val |-> PyNone, field |-> field, err |-> msg, log |-> warnings]

validate_symbol(symbol) ==
    IF ~Truthy(symbol) \/ symbol.t # "str"
    THEN RaiseValueError("symbol", "Symbol must be a non-empty string",
                         <<"Invalid symbol type">>)
    ELSE LET s == str_strip(str_upper(symbol.s))
         IN  IF ~SymbolPatternMatches(s)
             THEN RaiseValueError("symbol",
                      "Symbol must contain only alphanumeric characters",
                      <<"Invalid symbol format">>)
             ELSE IF Len(s) < MinSymbolLen
             THEN RaiseValueError("symbol", "Symbol must be at least 2 characters",
                                  <<"Symbol too short">>)
             ELSE Return(PyStr(s), <<>>)

BUY == <<"B","U","Y">>
SELL == <<"S","E","L","L">>
MARKET == <<"M","A","R","K","E","T">>
LIMIT == <<"L","I","M","I","T">>

validate_side(side) ==
    IF ~Truthy(side) \/ side.t # "str"
    THEN RaiseValueError("side", "Side must be a non-empty string",
                         <<"Invalid side type">>)
    ELSE LET s == str_strip(str_upper(side.s))
         IN  IF s \notin {BUY, SELL}
             THEN RaiseValueError("side", "Side must be 'BUY' or 'SELL'",
                                  <<"Invalid side value">>)
             ELSE Return(PyStr(s), <<>>)

validate_order_type(order_type) ==
    IF ~Truthy(order_type) \/ order_type.t # "str"
    THEN RaiseValueError("order_type", "Order type must be a non-empty string",
                         <<"Invalid order_type type">>)
    ELSE LET s == str_strip(str_upper(order_type.s))
         IN  IF s \notin {MARKET, LIMIT}
             THEN RaiseValueError("order_type",
                      "Order type must be 'MARKET' or 'LIMIT'",
                      <<"Invalid order_type value">>)
             ELSE Return(PyStr(s), <<>>)

validate_quantity(quantity) ==
    LET qty == float(quantity)
    IN  IF ~qty.ok
        THEN RaiseValueError("quantity", "Quantity must be a valid number",
                             <<"Invalid quantity format">>)
        ELSE IF FloatLeZero(qty.f)
        THEN RaiseValueError("quantity", "Quantity must be positive",
                             <<"Invalid quantity value">>)
        ELSE Return(PyFloat(qty.f), <<>>)

\* the price checked whatever the order type
validate_price_any_type(price, order_type) ==
    LET px == float(price)
    IN  IF price = PyNone
        THEN RaiseValueError("price", "Price is required for LIMIT orders",
                             <<"Price is required for LIMIT orders">>)
        ELSE IF ~px.ok
        THEN RaiseValueError("price", "Price must be a valid number",
                             <<"Invalid price format">>)
        ELSE IF FloatLeZero(px.f)
        THEN RaiseValueError("price", "Price must be positive",
                             <<"Invalid price value">>)
        ELSE Return(PyFloat(px.f), <<>>)

validate_price(price, order_type) ==
    IF order_type = PyStr(LIMIT)
    THEN IF price = PyNone
         THEN RaiseValueError("price", "Price is required for LIMIT orders",
                              <<"Price is required for LIMIT orders">>)
         ELSE LET px == float(price)
              IN  IF ~px.ok
                  THEN RaiseValueError("price", "Price must be a valid number",
                                       <<"Invalid price format">>)
                  ELSE IF FloatLeZero(px.f)
                  THEN RaiseValueError("price", "Price must be positive",
                                       <<"Invalid price value">>)
                  ELSE Return(PyFloat(px.f), <<>>)
    ELSE IF price # PyNone
         THEN Return(PyNone, <<"Price not required for MARKET orders, ignoring">>)
         ELSE Return(PyNone, <<>>)

\* the price taken over without its check
validate_all_inputs_no_price(symbol, side, order_type, quantity, price) ==
    LET sy == validate_symbol(symbol)
        sd == validate_side(side)
        ot == validate_order_type(order_type)
        qt == validate_quantity(quantity)
        px == validate_price(price, ot.val)
    IN  IF ~sy.ok THEN sy
        ELSE IF ~sd.ok THEN sd
        ELSE IF ~ot.ok THEN ot
        ELSE IF ~qt.ok THEN qt
        ELSE Return([symbol |-> sy.val, side |-> sd.val, order_type |-> ot.val,
                     quantity |-> qt.val, price |-> px.val],
                    <<>>)

\* every validator run before the first error is raised
validate_all_inputs_run_all(symbol, side, order_type, quantity, price) ==
    LET sy == validate_symbol(symbol)
        sd == validate_side(side)
        ot == validate_order_type(order_type)
        qt == validate_quantity(quantity)
        px == validate_price(price, ot.val)
        all == sy.log \o sd.log \o ot.log \o qt.log \o px.log
    IN  IF ~sy.ok THEN [sy EXCEPT !.log = all]
        ELSE IF ~sd.ok THEN [sd EXCEPT !.log = all]
        ELSE IF ~ot.ok THEN [ot EXCEPT !.log = all]
        ELSE IF ~qt.ok THEN [qt EXCEPT !.log = all]
        ELSE IF ~px.ok THEN [px EXCEPT !.log = all]
        ELSE Return([symbol |-> sy.val, side |-> sd.val, order_type |-> ot.val,
                     quantity |-> qt.val, price |-> px.val],
                    px.log)

\* the dict literal evaluates the four validators in order; the first
\* ValueError propagates and nothing after it is evaluated
validate_all_inputs(symbol, side, order_type, quantity, price) ==
    LET sy == validate_symbol(symbol)
        sd == validate_side(side)
        ot == validate_order_type(order_type)
        qt == validate_quantity(quantity)
        px == validate_price(price, ot.val)
    IN  IF ~sy.ok THEN sy
        ELSE IF ~sd.ok THEN sd
        ELSE IF ~ot.ok THEN ot
        ELSE IF ~qt.ok THEN qt
        ELSE IF ~px.ok THEN px
        ELSE Return([symbol |-> sy.val, side |-> sd.val, order_type |-> ot.val,
                     quantity |-> qt.val, price |-> px.val],
                    px.log)

-----------------------------------------------------------------------------
(* the exchange (python-binance Client) as seen by bot/client.py *)

\* a response is a dict: a function from the keys it holds to their values
JsonValue(k) == [t |-> "json", of |-> k]
Response(keys) == [k \in keys |-> JsonValue(k)]
DictGet(d, k) == IF k \in DOMAIN d THEN d[k] ELSE PyNone

ResultKeys == {"orderId", "symbol", "side", "type", "status",
               "executedQty", "avgPrice", "updateTime"}
ResponseKeys == ResultKeys \cup {"timestamp", "clientOrderId"}

\* exceptions and their base classes
ExcParent ==
    [ValueError |-> "Exception",
     BinanceAPIException |-> "Exception",
     BinanceRequestException |-> "Exception",
     Exception |-> "BaseException",
     SystemExit |-> "BaseException",
     BaseException |-> "object"]

RECURSIVE IsSubclass(_, _)
IsSubclass(c, d) ==
    \/ c = d
    \/ c # "object" /\ c \in DOMAIN ExcParent /\ IsSubclass(ExcParent[c], d)

\* what a call of the exchange can do: return a response or raise
TransportErrors == {"BinanceAPIException", "BinanceRequestException", "Exception"}
Returned(r) == [ok |-> TRUE, response |-> r, exc |-> "none"]
Raised(e) == [ok |-> FALSE, response |-> <<>>, exc |-> e]

-----------------------------------------------------------------------------
(* bot/orders.py: response normalization *)

\* timestamp read from the key of its own name
extract_order_details_own_key(response) ==
    [orderId |-> DictGet(response, "orderId"),
     symbol |-> DictGet(response, "symbol"),
     side |-> DictGet(response, "side"),
     type |-> DictGet(response, "type"),
     status |-> DictGet(response, "status"),
     executedQty |-> DictGet(response, "executedQty"),
     avgPrice |-> DictGet(response, "avgPrice"),
     timestamp |-> DictGet(response, "timestamp")]

extract_order_details(response) ==
    [orderId |-> DictGet(response, "orderId"),
     symbol |-> DictGet(response, "symbol"),
     side |-> DictGet(response, "side"),
     type |-> DictGet(response, "type"),
     status |-> DictGet(response, "status"),
     executedQty |-> DictGet(response, "executedQty"),
     avgPrice |-> DictGet(response, "avgPrice"),
     timestamp |-> DictGet(response, "updateTime")]

-----------------------------------------------------------------------------
(* cli.py: main, with BinanceClient and OrderService.place_order inlined
   at their call sites *)

\* a bare except in place of "except Exception"
MainHandler_bare_except(exc) ==
    IF IsSubclass(exc, "ValueError") THEN "except_ValueError"
    ELSE "except_Exception"

\* which except clause of main takes an exception raised in its try block
MainHandler(exc) ==
    IF IsSubclass(exc, "ValueError") THEN "except_ValueError"
    ELSE IF IsSubclass(exc, "Exception") THEN "except_Exception"
    ELSE "propagate"

\* only the key looked at
CredentialsMissing_key_only(e) == ~Truthy(e.key)

CredentialsMissing(e) == ~Truthy(e.key) \/ ~Truthy(e.secret)

\* test_connection: one authenticated request; every error is re-raised
test_connection(outcome) ==
    /\ requests' = Append(requests, [endpoint |-> "futures_account", params |-> <<>>])
    /\ IF outcome.ok
       THEN pc' = "place_order" /\ UNCHANGED raised
       ELSE pc' = MainHandler(outcome.exc) /\ raised' = outcome.exc

\* the constructor without its connection test
BinanceClient_init_untested ==
    /\ pc = "main"
    /\ IF CredentialsMissing(env)
       THEN /\ raised' = "ValueError"
            /\ pc' = MainHandler("ValueError")
            /\ UNCHANGED exchange
       ELSE /\ exchange' = TRUE
            /\ pc' = "place_order"
            /\ UNCHANGED raised
    /\ UNCHANGED <<args, env, requests, clientCalls, validated, order_details,
                   banner, exitCode, log, call, ret>>

\* client = BinanceClient()
BinanceClient_init ==
    /\ pc = "main"
    /\ IF CredentialsMissing(env)
       THEN /\ raised' = "ValueError"
            /\ pc' = MainHandler("ValueError")
            /\ UNCHANGED <<exchange, requests>>
       ELSE /\ exchange' = TRUE
            /\ \E outcome \in {Returned(Response({}))} \cup
                              {Raised(e) : e \in TransportErrors} :
                   test_connection(outcome)
    /\ UNCHANGED <<args, env, clientCalls, validated, order_details, banner,
                   exitCode, log, call, ret>>

\* the call validate_all_inputs(symbol, side, order_type, quantity, price)
\* made by place_order on the arguments main passes through
ValidateArgs ==
    validate_all_inputs(args.symbol, args.side, args.order_type,
                        args.quantity, args.price)

\* place_order, first statement: validated = validate_all_inputs(...)
place_order_validate ==
    /\ pc = "place_order"
    /\ validated' = ValidateArgs
    /\ log' = log \o ValidateArgs.log
    /\ IF ValidateArgs.ok
       THEN pc' = "submit" /\ UNCHANGED raised
       ELSE raised' = "ValueError" /\ pc' = MainHandler("ValueError")
    /\ UNCHANGED <<args, env, exchange, requests, clientCalls, order_details,
                   banner, exitCode, call, ret>>

place_market_order(symbol, side, quantity) ==
    /\ clientCalls' = Append(clientCalls,
           [method |-> "place_market_order", args |-> <<symbol, side, quantity>>])
    /\ requests' = Append(requests,
           [endpoint |-> "futures_create_order",
            params |-> [symbol |-> symbol, side |-> side, type |-> "MARKET",
                        quantity |-> quantity]])

place_limit_order(symbol, side, quantity, price) ==
    /\ clientCalls' = Append(clientCalls,
           [method |-> "place_limit_order",
            args |-> <<symbol, side, quantity, price>>])
    /\ requests' = Append(requests,
           [endpoint |-> "futures_create_order",
            params |-> [symbol |-> symbol, side |-> side, type |-> "LIMIT",
                        timeInForce |-> "GTC", quantity |-> quantity,
                        price |-> price]])

\* every order sent as a market order
Dispatch_always_market(v) ==
    place_market_order(v.symbol, v.side, v.quantity)

\* the branch of place_order that picks the client method
Dispatch(v) ==
    IF v.order_type = PyStr(MARKET)
    THEN place_market_order(v.symbol, v.side, v.quantity)
    ELSE place_limit_order(v.symbol, v.side, v.quantity, v.price)

CliResponses ==
    { Response(ResponseKeys), Response(ResultKeys \ {"avgPrice"}), Response({}) }

\* place_order, from the client call to its return or re-raise
place_order_submit ==
    /\ pc = "submit"
    /\ Dispatch(validated.val)
    /\ \E outcome \in {Returned(r) : r \in CliResponses} \cup
                      {Raised(e) : e \in TransportErrors} :
           IF outcome.ok
           THEN /\ order_details' = extract_order_details(outcome.response)
                /\ pc' = "display"
                /\ UNCHANGED raised
           ELSE /\ raised' = outcome.exc
                /\ pc' = MainHandler(outcome.exc)
                /\ UNCHANGED order_details
    /\ UNCHANGED <<args, env, exchange, validated, banner, exitCode, log,
                   call, ret>>

\* the response is echoed, then sys.exit(0) raises SystemExit inside the try
main_success ==
    /\ pc = "display"
    /\ raised' = "SystemExit"
    /\ IF MainHandler("SystemExit") = "propagate"
       THEN pc' = "exit" /\ exitCode' = 0
       ELSE pc' = MainHandler("SystemExit") /\ UNCHANGED exitCode
    /\ UNCHANGED <<args, env, exchange, requests, clientCalls, validated,
                   order_details, banner, log, call, ret>>

except_ValueError ==
    /\ pc = "except_ValueError"
    /\ banner' = "VALIDATION ERROR"
    /\ exitCode' = 1
    /\ pc' = "exit"
    /\ UNCHANGED <<args, env, exchange, requests, clientCalls, validated,
                   order_details, raised, log, call, ret>>

except_Exception ==
    /\ pc = "except_Exception"
    /\ banner' = "ERROR"
    /\ exitCode' = 1
    /\ pc' = "exit"
    /\ UNCHANGED <<args, env, exchange, requests, clientCalls, validated,
                   order_details, raised, log, call, ret>>

-----------------------------------------------------------------------------
(* inputs *)

MaxSymLen == 3
MaxMantissa == 1

Unset == [t |-> "unset"]
NoCall == [fn |-> "none", a |-> <<>>]

\* finite floats with mantissa up to MaxMantissa, whole or in thousandths
FiniteFloats ==
    {Fin(neg, m, 0) : neg \in BOOLEAN, m \in 0..MaxMantissa} \cup
    {Fin(neg, m, 3) : neg \in BOOLEAN, m \in 1..MaxMantissa}
Floats == FiniteFloats \cup {NaN, Inf(FALSE), Inf(TRUE)}

\* what click hands to main: --symbol is any string, --side and --type one
\* of the choices (in either case), --quantity a float, --price a float or None
CliSymbols ==
    { <<"b","t","c","u","s","d","t">>, <<"E","T","H","U","S","D","T">>,
      <<" ","b","t"," ">>, <<"B","T","-","C">>, <<"x">>, <<>>, <<"U+00DF">> }
CliSides == { BUY, <<"s","e","l","l">> }
CliTypes == { <<"m","a","r","k","e","t">>, LIMIT }

CliArgs ==
    [symbol : {PyStr(s) : s \in CliSymbols},
     side : {PyStr(s) : s \in CliSides},
     order_type : {PyStr(s) : s \in CliTypes},
     quantity : {PyFloat(f) : f \in Floats},
     price : {PyNone} \cup {PyFloat(f) : f \in Floats}]

\* os.getenv gives None for an unset variable, else its (possibly empty) text
Envs ==
    [key : {PyNone, PyStr(<<>>), PyStr(<<"k">>)},
     secret : {PyNone, PyStr(<<"s">>)}]

Init ==
    /\ pc = "main"
    /\ args \in CliArgs
    /\ env \in Envs
    /\ exchange = FALSE
    /\ requests = <<>>
    /\ clientCalls = <<>>
    /\ validated = Unset
    /\ order_details = Unset
    /\ raised = "none"
    /\ banner = "none"
    /\ exitCode = -1
    /\ log = <<>>
    /\ call = NoCall
    /\ ret = Unset

Next ==
    \/ BinanceClient_init
    \/ place_order_validate
    \/ place_order_submit
    \/ main_success
    \/ except_ValueError
    \/ except_Exception

Spec == Init /\ [][Next]_vars

-----------------------------------------------------------------------------
(* the validators and the normalization called directly, on raw values of
   any type *)

SymbolAlphabet == {"b", "T", "7", " ", "\n", "-", "U+00DF"}

\* every string over the alphabet of length at most n
RECURSIVE Strings(_)
Strings(n) ==
    IF n = 0 THEN { <<>> }
    ELSE LET shorter == Strings(n - 1)
         IN  shorter \cup {Append(s, c) : s \in shorter, c \in SymbolAlphabet}

NonStrings == {PyNone, PyList, PyBool(TRUE), PyBool(FALSE),
               PyFloat(Fin(FALSE, 1, 0)), PyFloat(Fin(FALSE, 0, 0))}

RawSymbols == {PyStr(s) : s \in Strings(MaxSymLen)} \cup NonStrings

NumberStrings ==
    { <<"1">>, <<"0">>, <<"-","1">>, <<"0",".","0","0","1">>,
      <<" ","2",".","5","0"," ">>, <<"+",".","5">>, <<"1",".">>, <<".">>,
      <<"0",".","0">>, <<"-","0">>, <<"a","b","c">>, <<>>, <<" ">>,
      <<"1","x">>, <<"-">>, <<"-","-","1">>, <<"1"," ","2">>,
      <<"n","a","n">>, <<"N","a","N">>, <<"-","i","n","f">>,
      <<"I","n","f","i","n","i","t","y">>, <<"\t","3","\n">> }

RawNumbers ==
    {PyFloat(f) : f \in Floats} \cup {PyStr(s) : s \in NumberStrings} \cup
    {PyNone, PyList, PyBool(TRUE), PyBool(FALSE)}

RawTypes ==
    {PyStr(s) : s \in CliTypes \cup
                      { <<" ","L","i","m","i","t","\n">>, <<"s","t","o","p">>, <<>> }}
    \cup {PyNone}

RawSides ==
    {PyStr(s) : s \in CliSides \cup { <<"h","o","l","d">>, <<" ","B","u","y">> }}
    \cup {PyNone}

\* a few of each kind, for the calls that take all five fields
FewSymbols ==
    {PyStr(s) : s \in { <<"b","t","c">>, <<" ","T","7","\n">>, <<"b","-","T">>,
                        <<"7">>, <<"U+00DF">> }} \cup {PyNone}
FewNumbers ==
    {PyFloat(f) : f \in {Fin(FALSE, 1, 3), Fin(TRUE, 1, 0), Fin(FALSE, 0, 0),
                         NaN, Inf(FALSE)}} \cup
    {PyStr(s) : s \in { <<"0",".","0","0","1">>, <<"a","b","c">>, <<"-","1">> }}
    \cup {PyNone}

LibCalls ==
    {[fn |-> "validate_symbol", a |-> <<x>>] : x \in RawSymbols} \cup
    {[fn |-> "validate_quantity", a |-> <<x>>] : x \in RawNumbers} \cup
    {[fn |-> "validate_price", a |-> <<x, PyStr(ot)>>] :
         x \in RawNumbers, ot \in {MARKET, LIMIT}} \cup
    {[fn |-> "validate_all_inputs", a |-> <<sy, sd, ot, q, p>>] :
         sy \in FewSymbols, sd \in RawSides, ot \in RawTypes,
         q \in FewNumbers, p \in FewNumbers} \cup
    {[fn |-> "extract_order_details", a |-> <<Response(keys)>>] :
         keys \in SUBSET ResponseKeys}

InitLib ==
    /\ pc = "lib"
    /\ call \in LibCalls
    /\ ret = Unset
    /\ args = Unset
    /\ env = Unset
    /\ exchange = FALSE
    /\ requests = <<>>
    /\ clientCalls = <<>>
    /\ validated = Unset
    /\ order_details = Unset
    /\ raised = "none"
    /\ banner = "none"
    /\ exitCode = -1
    /\ log = <<>>

Idle == UNCHANGED <<pc, args, env, exchange, requests, clientCalls, validated,
                    order_details, raised, banner, exitCode, log, call>>

call_validate_symbol ==
    /\ call.fn = "validate_symbol" /\ ret = Unset
    /\ ret' = validate_symbol(call.a[1])
    /\ Idle

call_validate_quantity ==
    /\ call.fn = "validate_quantity" /\ ret = Unset
    /\ ret' = validate_quantity(call.a[1])
    /\ Idle

call_validate_price ==
    /\ call.fn = "validate_price" /\ ret = Unset
    /\ ret' = validate_price(call.a[1], call.a[2])
    /\ Idle

call_validate_all_inputs ==
    /\ call.fn = "validate_all_inputs" /\ ret = Unset
    /\ ret' = validate_all_inputs(call.a[1], call.a[2], call.a[3],
                                  call.a[4], call.a[5])
    /\ Idle

call_extract_order_details ==
    /\ call.fn = "extract_order_details" /\ ret = Unset
    /\ ret' = Return(extract_order_details(call.a[1]), <<>>)
    /\ Idle

NextLib ==
    \/ call_validate_symbol
    \/ call_validate_quantity
    \/ call_validate_price
    \/ call_validate_all_inputs
    \/ call_extract_order_details

SpecLib == InitLib /\ [][NextLib]_vars

-----------------------------------------------------------------------------
(* properties of one CLI invocation (Spec) *)

ValidationReturned == validated # Unset /\ validated.ok
ValidationRaised == validated # Unset /\ ~validated.ok

OrderRequests ==
    {i \in 1..Len(requests) : requests[i].endpoint = "futures_create_order"}

\* each of the five fields of args passes its own validator
AllFiveFieldsValid ==
    /\ validate_symbol(args.symbol).ok
    /\ validate_side(args.side).ok
    /\ validate_order_type(args.order_type).ok
    /\ validate_quantity(args.quantity).ok
    /\ validate_price(args.price, validate_order_type(args.order_type).val).ok

\* C1: a submission call to the transport client (place_market_order or
\* place_limit_order, and the order request it sends) is made only after
\* validate_all_inputs has returned successfully, all five fields of the
\* invocation being valid; once validation has raised, no submission call
\* and no order request is made in that invocation.
C1_SubmitOnlyAfterValidation ==
    /\ (clientCalls # <<>> \/ OrderRequests # {})
           => ValidationReturned /\ AllFiveFieldsValid
    /\ ValidationRaised => clientCalls = <<>> /\ OrderRequests = {}
    /\ ~AllFiveFieldsValid => clientCalls = <<>> /\ OrderRequests = {}

C1_Witness ==
    /\ Len(clientCalls) = 1
    /\ OrderRequests # {}
    /\ ValidationReturned

C3_ExitCode ==
    /\ pc = "exit" <=> exitCode # -1
    /\ raised \in TransportErrors \cup {"ValueError"} =>
           pc \in {"except_ValueError", "except_Exception", "exit"}
    /\ pc = "exit" =>
           /\ exitCode \in {0, 1}
           /\ exitCode = 0 <=> (ValidationReturned /\ order_details # Unset)
           /\ exitCode = 0 <=> raised = "SystemExit"
           /\ exitCode = 1 <=> raised \in TransportErrors \cup {"ValueError"}
           /\ exitCode = 0 => banner = "none"

C3_Witness ==
    /\ pc = "exit"
    /\ exitCode = 0
    /\ order_details # Unset

\* the normalized request of the invocation, field by field
Normalized ==
    [symbol |-> validate_symbol(args.symbol).val,
     side |-> validate_side(args.side).val,
     order_type |-> validate_order_type(args.order_type).val,
     quantity |-> validate_quantity(args.quantity).val,
     price |-> validate_price(args.price,
                              validate_order_type(args.order_type).val).val]

\* C4: once place_order has gone past its client call for a validated
\* request, exactly one submission call and one order request have been made,
\* those of the order type: MARKET is place_market_order(symbol, side,
\* quantity) of the normalized values, sent without price or time-in-force;
\* LIMIT is place_limit_order(symbol, side, quantity, price), sent with
\* timeInForce GTC.  Never is there a second call, also after a failure.
C4_OneMatchingSubmission ==
    /\ Len(clientCalls) <= 1
    /\ Cardinality(OrderRequests) <= 1
    /\ (ValidationReturned /\ pc # "submit") =>
           /\ Len(clientCalls) = 1
           /\ Len(requests) = 2
           /\ IF Normalized.order_type = PyStr(MARKET)
              THEN /\ clientCalls[1] =
                          [method |-> "place_market_order",
                           args |-> <<Normalized.symbol, Normalized.side,
                                      Normalized.quantity>>]
                   /\ requests[2] =
                          [endpoint |-> "futures_create_order",
                           params |-> [symbol |-> Normalized.symbol,
                                       side |-> Normalized.side,
                                       type |-> "MARKET",
                                       quantity |-> Normalized.quantity]]
              ELSE /\ Normalized.order_type = PyStr(LIMIT)
                   /\ clientCalls[1] =
                          [method |-> "place_limit_order",
                           args |-> <<Normalized.symbol, Normalized.side,
                                      Normalized.quantity, Normalized.price>>]
                   /\ requests[2] =
                          [endpoint |-> "futures_create_order",
                           params |-> [symbol |-> Normalized.symbol,
                                       side |-> Normalized.side,
                                       type |-> "LIMIT",
                                       timeInForce |-> "GTC",
                                       quantity |-> Normalized.quantity,
                                       price |-> Normalized.price]]

C4_Witness ==
    /\ pc = "exit"
    /\ raised \in TransportErrors
    /\ Len(clientCalls) = 1
    /\ clientCalls[1].method = "place_limit_order"

\* the variable is absent from the environment
Absent(v) == v = PyNone

\* C10: with the API key or the API secret absent from the environment the
\* exchange client is never created, no request is sent, nothing is validated
\* or submitted, and the invocation ends with exit code 1.
C10_FailFastWithoutCredentials ==
    (Absent(env.key) \/ Absent(env.secret)) =>
        /\ exchange = FALSE
        /\ requests = <<>>
        /\ validated = Unset
        /\ clientCalls = <<>>
        /\ order_details = Unset
        /\ pc \in {"main", "except_ValueError", "exit"}
        /\ pc = "exit" => exitCode = 1

C10_Witness ==
    /\ Absent(env.secret)
    /\ ~Absent(env.key)
    /\ pc = "exit"
    /\ exitCode = 1

-----------------------------------------------------------------------------
(* properties of the validators and of the normalization (SpecLib) *)

Called(fn) == call.fn = fn /\ ret # Unset

\* the first four fields of a validate_all_inputs call pass their validators
FirstFourValid ==
    /\ validate_symbol(call.a[1]).ok
    /\ validate_side(call.a[2]).ok
    /\ validate_order_type(call.a[3]).ok
    /\ validate_quantity(call.a[4]).ok

\* the price is None, does not parse as a number, or is <= 0
PriceRejected(price) ==
    \/ price = PyNone
    \/ ~float(price).ok
    \/ FloatLeZero(float(price).f)

C6_OrderRequestModel ==
    (Called("validate_all_inputs") /\ ret.ok) =>
        /\ ret.val.symbol.t = "str"
        /\ Len(ret.val.symbol.s) >= 2
        /\ AllUpperAlnum(ret.val.symbol.s)
        /\ ret.val.side \in {PyStr(BUY), PyStr(SELL)}
        /\ ret.val.order_type \in {PyStr(MARKET), PyStr(LIMIT)}
        /\ ret.val.quantity.t = "float"
        /\ FloatGtZero(ret.val.quantity.f)
        /\ IF ret.val.order_type = PyStr(LIMIT)
           THEN ret.val.price.t = "float" /\ FloatGtZero(ret.val.price.f)
           ELSE ret.val.price = PyNone

\* str.isalnum on one character
IsAlnumChar(c) ==
    InSeq(c, LowerCase) \/ InSeq(c, UpperCase) \/ InSeq(c, Digits) \/ c = "U+00DF"

\* C7 as claimed: every symbol containing a non-alphanumeric character
\* fails, as does every symbol that is empty, not a string or shorter than 2
\* characters; an accepted symbol is returned upper-cased.
C7_NonAlnumAnywhereFails ==
    Called("validate_symbol") =>
        /\ (call.a[1].t = "str" /\ \E i \in 1..Len(call.a[1].s) :
                ~IsAlnumChar(call.a[1].s[i])) => ~ret.ok
        /\ (call.a[1].t # "str" \/ Len(call.a[1].s) < 2) => ~ret.ok
        /\ ret.ok => ret.val.s = str_upper(ret.val.s)

\* the symbol as the checks see it: upper-cased, then trimmed
Trimmed(x) == str_strip(str_upper(x.s))

SymbolRejected(x) ==
    \/ x.t # "str"
    \/ x.s = <<>>
    \/ \E i \in 1..Len(Trimmed(x)) : ~IsUpperAlnum(Trimmed(x)[i])
    \/ Len(Trimmed(x)) < 2

\* C7 amended: a symbol fails when, upper-cased and with leading and
\* trailing whitespace trimmed, it contains a character other than A-Z and
\* 0-9 or is shorter than 2 characters, and when it is empty or not a string;
\* an accepted symbol is returned upper-cased and trimmed.  The same holds of
\* validate_all_inputs.
C7_NonAlnumAfterTrimFails ==
    /\ Called("validate_symbol") =>
           /\ SymbolRejected(call.a[1]) => ~ret.ok
           /\ ret.ok => ret.val = PyStr(Trimmed(call.a[1]))
    /\ Called("validate_all_inputs") =>
           /\ SymbolRejected(call.a[1]) => ~ret.ok
           /\ ret.ok => ret.val.symbol = PyStr(Trimmed(call.a[1]))

C7_Witness ==
    /\ Called("validate_symbol")
    /\ call.a[1] = PyStr(<<"b","-","T">>)
    /\ ~ret.ok
    /\ ret.err = "Symbol must contain only alphanumeric characters"

\* C8: validate_quantity fails for every quantity that does not parse as a
\* number or is <= 0, and succeeds only for values that parse as a number
\* and are strictly positive.
C8_QuantityRule ==
    Called("validate_quantity") =>
        /\ (~float(call.a[1]).ok \/ FloatLeZero(float(call.a[1]).f)) => ~ret.ok
        /\ ret.ok => float(call.a[1]).ok /\ FloatGtZero(float(call.a[1]).f)

\* C9: extract_order_details returns, for a response holding any subset of
\* the fields, a record of exactly the keys orderId, symbol, side, type,
\* status, executedQty, avgPrice, timestamp; each carries the response's
\* value of the field of that name (timestamp that of updateTime) and is
\* None when the response lacks the field.
C9_FixedProjection ==
    Called("extract_order_details") =>
        /\ ret.ok
        /\ DOMAIN ret.val = {"orderId", "symbol", "side", "type", "status",
                             "executedQty", "avgPrice", "timestamp"}
        /\ \A k \in {"orderId", "symbol", "side", "type", "status",
                     "executedQty", "avgPrice"} :
               ret.val[k] = IF k \in DOMAIN call.a[1] THEN call.a[1][k] ELSE PyNone
        /\ ret.val["timestamp"] =
               IF "updateTime" \in DOMAIN call.a[1]
               THEN call.a[1]["updateTime"] ELSE PyNone

C9_Witness ==
    /\ Called("extract_order_details")
    /\ DOMAIN call.a[1] = ResponseKeys \ {"avgPrice"}
    /\ ret.val.avgPrice = PyNone
    /\ ret.val.timestamp = JsonValue("updateTime")

\* the warnings each field's validator can log
WarningsOf ==
    [symbol |-> {"Invalid symbol type", "Invalid symbol format", "Symbol too short"},
     side |-> {"Invalid side type", "Invalid side value"},
     order_type |-> {"Invalid order_type type", "Invalid order_type value"},
     quantity |-> {"Invalid quantity format", "Invalid quantity value"},
     price |-> {"Price is required for LIMIT orders", "Invalid price format",
                "Invalid price value",
                "Price not required for MARKET orders, ignoring"}]

FieldOrder == <<"symbol", "side", "order_type", "quantity", "price">>

\* the outcome of each field's own validator on the arguments of the pending
\* validate_all_inputs call, the price under the normalized order type
FieldOutcome ==
    [symbol |-> validate_symbol(call.a[1]),
     side |-> validate_side(call.a[2]),
     order_type |-> validate_order_type(call.a[3]),
     quantity |-> validate_quantity(call.a[4]),
     price |-> validate_price(call.a[5], validate_order_type(call.a[3]).val)]

\* field i is invalid: the first three and the quantity on their own, the
\* price when the order type is valid and the price fails under it
Invalid(i) ==
    IF FieldOrder[i] = "price"
    THEN FieldOutcome.order_type.ok /\ ~FieldOutcome.price.ok
    ELSE ~FieldOutcome[FieldOrder[i]].ok

\* C11: validate_all_inputs checks symbol, side, order type, quantity, price
\* in that order and stops at the first failure: with several invalid fields
\* the error raised is that of the earliest invalid one, one error and not a
\* collection, the only warning logged is that field's (no validator of a
\* later field has run), and the price is checked under the normalized order
\* type.
C11_FirstFailureAborts ==
    Called("validate_all_inputs") =>
        /\ ret.ok <=> \A i \in 1..5 : ~Invalid(i)
        /\ \A i \in 1..5 :
               (Invalid(i) /\ \A j \in 1..(i - 1) : ~Invalid(j)) =>
                   /\ ~ret.ok
                   /\ ret.field = FieldOrder[i]
                   /\ ret.err = FieldOutcome[FieldOrder[i]].err
                   /\ Len(ret.log) = 1
                   /\ ret.log[1] \in WarningsOf[FieldOrder[i]]
                   /\ \A j \in (i + 1)..5 : ret.log[1] \notin WarningsOf[FieldOrder[j]]
        /\ ret.ok => ret.val.price = FieldOutcome.price.val

C11_Witness ==
    /\ Called("validate_all_inputs")
    /\ Invalid(2) /\ Invalid(4) /\ ~Invalid(1) /\ ~Invalid(3)
    /\ call.a[3] = PyStr(<<" ","L","i","m","i","t","\n">>)
    /\ call.a[5] = PyNone
    /\ ret.field = "side"
    /\ ret.log = <<"Invalid side value">>

\* C12: the CLI reports an error under the VALIDATION ERROR banner only when
\* one of the five input fields failed validation, and reports every failure
\* of startup or of the transport (missing credentials, a rejected request,
\* a network failure) under the ERROR banner, the one that points to the log
\* file.
C12_ErrorCategoriesApart ==
    /\ banner \in {"none", "VALIDATION ERROR", "ERROR"}
    /\ banner = "VALIDATION ERROR" => ValidationRaised /\ ~AllFiveFieldsValid
    /\ (pc = "exit" /\ exitCode = 1 /\ ~ValidationRaised) => banner = "ERROR"

=============================================================================
